---- MODULE Spec2Model ----
(***************************************************************************)
(* VIFHotPlugPluggingDriver: the calling discipline of the hot-plug        *)
(* plugging driver around the Neutron core plugin (the port registry) and  *)
(* the service-VM manager (the compute-side attach/detach client).         *)
(*                                                                         *)
(* Python values are encoded as strings and string-keyed records: the      *)
(* scalar None is the string None, a None dictionary is NoneDict.  Every   *)
(* call a driver method makes on a collaborator is appended to the calling *)
(* thread's `calls` log, which is reset when the next driver call starts.  *)
(***************************************************************************)
EXTENDS Integers, Sequences, FiniteSets, TLC

\* ------------------------------------------------------------------ bounds
MaxPorts == 2            \* port ids the registry hands out in total
MaxTries == 4            \* largest `tries` the retry decorator is given

\* ------------------------------------------------------- program constants
DELETION_ATTEMPTS == 4
DeleteRetryDelay == 1    \* third argument of @retry on _delete_resource_port
DefaultBackoff == 2      \* retry(..., backoff=2)

\* ----------------------------------------------------------- value domains
None == "None"
NoneDict == [is_none |-> "true"]

Threads == {1, 2}
PortIdSeq == <<"p1", "p2", "p3", "p4", "p5">>
PortIds == {PortIdSeq[i] : i \in 1..MaxPorts}
Networks == {"mgmt", "data"}
HostingDevices == {"hd1", "hd2"}
ComplementaryIds == {"c1", "c2"}
L3AdminTenant == "l3admin"

UserContext == [is_admin |-> FALSE]
Contexts == {UserContext, [is_admin |-> TRUE]}
TenantArgs == {None, "", "t1"}
MgmtContexts == {NoneDict, [other |-> "x"], [mgmt_nw_id |-> None],
                 [mgmt_nw_id |-> ""], [mgmt_nw_id |-> "mgmt"],
                 [mgmt_nw_id |-> "data"]}
PortArgs == {NoneDict, [name |-> "x"], [id |-> None]}
               \cup {[id |-> p] : p \in PortIds}

\* Ports the registry may hold before the driver is first called.
InitPortRecords(i, networks) ==
    {[id |-> PortIdSeq[i], network_id |-> n, device_id |-> d,
      device_owner |-> o, tenant_id |-> "t1"] :
        n \in networks, d \in {"", "hd1"}, o \in {"", "c1"}}

\* ------------------------------------------------------- Python primitives
\* bool(x) of a scalar: None and the empty string are falsy.
Truthy(x) == x \notin {None, ""}

\* bool(d) of a dictionary or None: None and {} are falsy.
TruthyDict(d) == d # NoneDict /\ DOMAIN d # {}

\* d.get(k): None when the key is missing.
DictGet(d, k) == IF k \in DOMAIN d THEN d[k] ELSE None

\* isinstance(exc, cls) over the exception classes the driver names.
IsInstance(exc, cls) ==
    \/ exc = cls
    \/ cls = "Exception"
    \/ cls = "NeutronException" /\ exc = "PortNotFound"

\* context.elevated()
Elevated(context) == [context EXCEPT !.is_admin = TRUE]

RECURSIVE SelectSeq2(_, _, _, _)
\* the rows of the query: ports with device_id == id OR device_owner == comp
SelectSeq2(s, i, id, complementary_id) ==
    IF i > Len(s) THEN <<>>
    ELSE (IF s[i].device_id = id \/ s[i].device_owner = complementary_id
          THEN <<s[i]>> ELSE <<>>)
         \o SelectSeq2(s, i + 1, id, complementary_id)

VARIABLES
    ports,         \* the registry: port records in enumeration order
    attached,      \* compute side: <<hosting device id, port id>> pairs
    next_id,       \* number of port ids the registry has handed out
    pc,            \* per thread: position in the running driver call
    op,            \* per thread: the driver method called last
    args,          \* per thread: its arguments
    mgmt_port,     \* per thread: local of create_hosting_device_resources
    dh_mgmt_port,  \* per thread: parameter of delete_hosting_device_resources
    caller,        \* per thread: who called delete_hosting_device_resources
    mtries,        \* per thread: local of f_retry
    mdelay,        \* per thread: local of f_retry
    calls,         \* per thread: collaborator calls made by the current call
    result,        \* per thread: outcome of the last call
    ports0,        \* per thread: the registry when the current call started
    attached0,     \* per thread: the attachments when the call started
    prev           \* per thread: the call before, if it deleted the same port

vars == <<ports, attached, next_id, pc, op, args, mgmt_port, dh_mgmt_port,
          caller, mtries, mdelay, calls, result, ports0, attached0, prev>>

registry == <<ports, attached, next_id>>
retry_locals == <<mtries, mdelay>>
frame == <<mgmt_port, dh_mgmt_port, caller>>
call_info == <<op, args, ports0, attached0, prev>>

PortIdsOf(s) == {s[i].id : i \in 1..Len(s)}

RECURSIVE RemovePort(_, _)
RemovePort(s, port_id) ==
    IF s = <<>> THEN <<>>
    ELSE IF Head(s).id = port_id THEN RemovePort(Tail(s), port_id)
    ELSE <<Head(s)>> \o RemovePort(Tail(s), port_id)

InitRegistry(networks) ==
    /\ \E n \in 0..MaxPorts :
         \E f \in [1..n -> UNION {InitPortRecords(i, networks) :
                                     i \in 1..MaxPorts}] :
            /\ \A i \in 1..n : f[i] \in InitPortRecords(i, networks)
            /\ ports = f
            /\ next_id = n
    /\ attached = {}

InitThreads ==
    /\ pc = [t \in Threads |-> "idle"]
    /\ op = [t \in Threads |-> "none"]
    /\ args = [t \in Threads |-> NoneDict]
    /\ mgmt_port = [t \in Threads |-> NoneDict]
    /\ dh_mgmt_port = [t \in Threads |-> NoneDict]
    /\ caller = [t \in Threads |-> "none"]
    /\ mtries = [t \in Threads |-> 0]
    /\ mdelay = [t \in Threads |-> 0]
    /\ calls = [t \in Threads |-> <<>>]
    /\ result = [t \in Threads |-> [status |-> "none"]]
    /\ ports0 = [t \in Threads |-> <<>>]
    /\ attached0 = [t \in Threads |-> {}]
    /\ prev = [t \in Threads |-> [op |-> "other"]]

\* The registry holds management and data ports of hosting devices.
Init == InitRegistry(Networks) /\ InitThreads

\* The registry holds the logical ports to be plugged.
InitConnect == InitRegistry({"data"}) /\ InitThreads

\* ------------------------------------------------------------ call protocol
\* A driver method is entered by thread t: its locals, and those of the
\* methods it may call, are fresh.
SamePortDeleted(t, name, a) ==
    /\ name = "delete_hosting_device_resources"
    /\ op[t] = name
    /\ args[t].mgmt_port = a.mgmt_port

Enter(t, name, a) ==
    /\ pc[t] = "idle"
    /\ op' = [op EXCEPT ![t] = name]
    /\ args' = [args EXCEPT ![t] = a]
    /\ ports0' = [ports0 EXCEPT ![t] = ports]
    /\ attached0' = [attached0 EXCEPT ![t] = attached]
    /\ mgmt_port' = [mgmt_port EXCEPT ![t] = NoneDict]
    /\ mtries' = [mtries EXCEPT ![t] = 0]
    /\ mdelay' = [mdelay EXCEPT ![t] = 0]
    /\ prev' = [prev EXCEPT ![t] =
                    IF SamePortDeleted(t, name, a)
                    THEN [op |-> op[t], mgmt_port |-> args[t].mgmt_port,
                          status |-> result[t].status]
                    ELSE [op |-> "other"]]

\* The running driver method returns val to the driver's caller.
Return(t, val) ==
    /\ pc' = [pc EXCEPT ![t] = "idle"]
    /\ result' = [result EXCEPT ![t] = [status |-> "returned", value |-> val]]

\* The running driver method lets exception exc escape to the driver's caller.
Raise(t, exc) ==
    /\ pc' = [pc EXCEPT ![t] = "idle"]
    /\ result' = [result EXCEPT ![t] = [status |-> "raised", exc |-> exc]]

Goto(t, label) ==
    /\ pc' = [pc EXCEPT ![t] = label]
    /\ UNCHANGED result

Log(t, events) == calls' = [calls EXCEPT ![t] = @ \o events]

\* ------------------------------------------------------------- the registry
\* core plugin create_port: the record built from p_spec, under a fresh id
NewPort(p_spec, n) ==
    [id |-> PortIdSeq[n + 1], network_id |-> p_spec.network_id,
     device_id |-> p_spec.device_id, device_owner |-> p_spec.device_owner,
     tenant_id |-> p_spec.tenant_id]

\* Outcomes of create_port: the port is recorded and returned; or the call
\* fails with a registry error, having recorded the port or not.  A registry
\* that has handed out all its ids can only fail.
CreatePortOutcomes(p_spec) ==
    {[exc |-> "NeutronException", ports |-> ports, next_id |-> next_id,
      value |-> NoneDict]}
    \cup
    (IF next_id < MaxPorts
     THEN LET p == NewPort(p_spec, next_id)
          IN {[exc |-> "", ports |-> Append(ports, p),
               next_id |-> next_id + 1, value |-> p],
              [exc |-> "NeutronException", ports |-> Append(ports, p),
               next_id |-> next_id + 1, value |-> NoneDict]}
     ELSE {})

\* Outcomes of delete_port: a recorded port is removed, an absent one is
\* reported as PortNotFound; either way the call may instead fail with a
\* generic registry error that leaves the registry as it was.
DeletePortOutcomes(port_id) ==
    {[exc |-> "NeutronException", ports |-> ports]}
    \cup
    (IF port_id \in PortIdsOf(ports)
     THEN {[exc |-> "", ports |-> RemovePort(ports, port_id)]}
     ELSE {[exc |-> "PortNotFound", ports |-> ports]})

\* ------------------------------------------ create_hosting_device_resources
\* mutant of CreateGuard: the tenant id is not tested
CreateGuard_no_tenant(mgmt_context, tenant_id) ==
    /\ TruthyDict(mgmt_context)
    /\ Truthy(DictGet(mgmt_context, "mgmt_nw_id"))

\* line 88: if mgmt_context and mgmt_context.get('mgmt_nw_id') and tenant_id
CreateGuard(mgmt_context, tenant_id) ==
    /\ TruthyDict(mgmt_context)
    /\ Truthy(DictGet(mgmt_context, "mgmt_nw_id"))
    /\ Truthy(tenant_id)

\* mutant of PSpec: the complementary id is stored as the device id
PSpec_device_id(tenant_id, mgmt_context, complementary_id) ==
    [tenant_id |-> tenant_id, network_id |-> mgmt_context.mgmt_nw_id,
     device_id |-> complementary_id, device_owner |-> ""]

\* lines 90-100
PSpec(tenant_id, mgmt_context, complementary_id) ==
    [tenant_id |-> tenant_id, network_id |-> mgmt_context.mgmt_nw_id,
     device_id |-> "", device_owner |-> complementary_id]

\* mutants of CreateCatches: a narrower class, and a handler that never matches
CreateCatches_PortNotFound(exc) == IsInstance(exc, "PortNotFound")

CreateCatches_nothing(exc) == FALSE

\* line 103: except n_exc.NeutronException
CreateCatches(exc) == IsInstance(exc, "NeutronException")

\* line 111
Bundle(port) == [mgmt_port |-> port, ports |-> <<>>]

CallCreate(t) ==
    \E context \in {UserContext}, complementary_id \in ComplementaryIds,
       tenant_id \in TenantArgs, mgmt_context \in MgmtContexts :
        /\ Enter(t, "create_hosting_device_resources",
                 [context |-> context, complementary_id |-> complementary_id,
                  tenant_id |-> tenant_id, mgmt_context |-> mgmt_context])
        /\ calls' = [calls EXCEPT ![t] = <<>>]
        /\ dh_mgmt_port' = [dh_mgmt_port EXCEPT ![t] = NoneDict]
        /\ caller' = [caller EXCEPT ![t] = "none"]
        /\ IF CreateGuard(mgmt_context, tenant_id)
           THEN Goto(t, "create_port")
           ELSE Return(t, Bundle(mgmt_port'[t]))
        /\ UNCHANGED registry

\* lines 101-107: the create_port call and its except clause
CreatePort(t) ==
    /\ pc[t] = "create_port"
    /\ LET a == args[t]
           p_spec == PSpec(a.tenant_id, a.mgmt_context, a.complementary_id)
       IN \E out \in CreatePortOutcomes(p_spec) :
            LET ev == [op |-> "create_port", context |-> a.context,
                       p_spec |-> p_spec, exc |-> out.exc,
                       recorded |-> IF out.next_id = next_id THEN None
                                    ELSE PortIdSeq[out.next_id]]
            IN /\ ports' = out.ports
               /\ next_id' = out.next_id
               /\ IF out.exc = ""
                  THEN /\ mgmt_port' = [mgmt_port EXCEPT ![t] = out.value]
                       /\ Log(t, <<ev>>)
                       /\ Return(t, Bundle(out.value))
                       /\ UNCHANGED <<dh_mgmt_port, caller>>
                  ELSE IF CreateCatches(out.exc)
                  THEN /\ Log(t, <<ev, [op |-> "LOG.error"]>>)
                       /\ dh_mgmt_port' =
                              [dh_mgmt_port EXCEPT ![t] = mgmt_port[t]]
                       /\ caller' = [caller EXCEPT ![t] = "create"]
                       /\ Goto(t, "dh_entry")
                       /\ UNCHANGED mgmt_port
                  ELSE /\ Log(t, <<ev>>)
                       /\ Raise(t, out.exc)
                       /\ UNCHANGED frame
    /\ UNCHANGED <<attached, retry_locals, call_info>>

\* ------------------------------------------ delete_hosting_device_resources
DeletePortArgs == {NoneDict} \cup {[id |-> p] : p \in PortIds}

\* mutant of LoopCond: one attempt too many
LoopCond_off_by_one(m) == m > 0

\* line 59: while mtries > 1
LoopCond(m) == m > 1

\* mutant of NextDelay: the delay grows by the multiplier instead
NextDelay_additive(d, backoff) == d + backoff

\* line 68: mdelay *= backoff
NextDelay(d, backoff) == d * backoff

\* mutant of Catches: every error is retried
Catches_all(exc, ExceptionToCheck) == TRUE

\* line 62: except ExceptionToCheck
Catches(exc, ExceptionToCheck) == IsInstance(exc, ExceptionToCheck)

\* line 62: except ExceptionToCheck, with ExceptionToCheck from line 150
RetryCatches(exc) == IsInstance(exc, "NeutronException")

\* mutant of DeleteResourcePortCatches: PortNotFound is left to the decorator
DeleteResourcePortCatches_nothing(exc) == FALSE

\* line 155: except n_exc.PortNotFound
DeleteResourcePortCatches(exc) == IsInstance(exc, "PortNotFound")

\* mutant of DeleteCatches: the error of the last attempt is not handled
DeleteCatches_nothing(exc) == FALSE

\* mutant of DeleteCatches: only the benign error is swallowed
DeleteCatches_PortNotFound(exc) == IsInstance(exc, "PortNotFound")

\* line 143: except n_exc.NeutronException
DeleteCatches(exc) == IsInstance(exc, "NeutronException")

\* mutant of DeleteGuard: the port is not tested
DeleteGuard_always(port) == TRUE

\* line 140: if mgmt_port is not None
DeleteGuard(port) == port # NoneDict

CallDelete(t) ==
    \E context \in {UserContext}, tenant_id \in {"t1"}, port \in DeletePortArgs :
        /\ Enter(t, "delete_hosting_device_resources",
                 [context |-> context, tenant_id |-> tenant_id,
                  mgmt_port |-> port])
        /\ dh_mgmt_port' = [dh_mgmt_port EXCEPT ![t] = port]
        /\ caller' = [caller EXCEPT ![t] = "top"]
        /\ calls' = [calls EXCEPT ![t] = <<>>]
        /\ Goto(t, "dh_entry")
        /\ UNCHANGED registry

\* line 140, and lines 57-58 when the port is given
DeleteEntry(t) ==
    /\ pc[t] = "dh_entry"
    /\ Log(t, <<[op |-> "delete_hosting_device_resources",
                 mgmt_port |-> dh_mgmt_port[t]]>>)
    /\ IF DeleteGuard(dh_mgmt_port[t])
       THEN /\ mtries' = [mtries EXCEPT ![t] = DELETION_ATTEMPTS]
            /\ mdelay' = [mdelay EXCEPT ![t] = DeleteRetryDelay]
            /\ Goto(t, "f_retry")
       ELSE /\ Goto(t, "dh_exit")
            /\ UNCHANGED retry_locals
    /\ UNCHANGED <<registry, frame, call_info>>

\* One attempt of f_retry (lines 59-69) on _delete_resource_port (lines
\* 152-157), with the except clause of line 143 when the error leaves f_retry.
DeleteAttempt(t) ==
    /\ pc[t] = "f_retry"
    /\ LET port_id == dh_mgmt_port[t].id
           trapped == LoopCond(mtries[t])
       IN \E out \in DeletePortOutcomes(port_id) :
            LET ev == [op |-> "delete_port", context |-> args[t].context,
                       port_id |-> port_id, exc |-> out.exc,
                       trapped |-> trapped]
            IN /\ ports' = out.ports
               /\ IF out.exc = ""
                  THEN /\ Log(t, <<ev, [op |-> "LOG.info"]>>)
                       /\ Goto(t, "dh_exit")
                       /\ UNCHANGED retry_locals
                  ELSE IF DeleteResourcePortCatches(out.exc)
                  THEN /\ Log(t, <<ev, [op |-> "LOG.warning"]>>)
                       /\ Goto(t, "dh_exit")
                       /\ UNCHANGED retry_locals
                  ELSE IF trapped /\ RetryCatches(out.exc)
                  THEN /\ Log(t, <<ev, [op |-> "LOG.error"],
                                   [op |-> "sleep", delay |-> mdelay[t]]>>)
                       /\ mtries' = [mtries EXCEPT ![t] = @ - 1]
                       /\ mdelay' = [mdelay EXCEPT ![t] =
                                         NextDelay(@, DefaultBackoff)]
                       /\ Goto(t, "f_retry")
                  ELSE IF DeleteCatches(out.exc)
                  THEN /\ Log(t, <<ev, [op |-> "LOG.error"]>>)
                       /\ Goto(t, "dh_exit")
                       /\ UNCHANGED retry_locals
                  ELSE /\ Log(t, <<ev>>)
                       /\ Raise(t, out.exc)
                       /\ UNCHANGED retry_locals
    /\ UNCHANGED <<attached, next_id, frame, call_info>>

\* delete_hosting_device_resources returns None: to the driver's caller, or to
\* line 108 of create_hosting_device_resources, which then returns (line 111).
DeleteExit(t) ==
    /\ pc[t] = "dh_exit"
    /\ IF caller[t] = "create"
       THEN /\ mgmt_port' = [mgmt_port EXCEPT ![t] = NoneDict]
            /\ Return(t, Bundle(NoneDict))
       ELSE /\ Return(t, None)
            /\ UNCHANGED mgmt_port
    /\ UNCHANGED <<registry, retry_locals, dh_mgmt_port, caller, calls,
                   call_info>>

\* ------------------------------------------------------ the retry decorator
\* retry(ExceptionToCheck, tries, delay, backoff) around any function f
RetryArgs ==
    [ExceptionToCheck : {"NeutronException", "PortNotFound"},
     tries : 1..MaxTries, delay : {1, 3}, backoff : {1, 2, 3}]

\* What a call of the wrapped function f may do: return, or raise.
WrappedOutcomes == {"", "NeutronException", "PortNotFound", "Exception"}

CallRetry(t) ==
    \E a \in RetryArgs :
        /\ Enter(t, "f_retry", a)
        /\ calls' = [calls EXCEPT ![t] = <<>>]
        /\ dh_mgmt_port' = [dh_mgmt_port EXCEPT ![t] = NoneDict]
        /\ caller' = [caller EXCEPT ![t] = "none"]
        /\ Goto(t, "retry_entry")
        /\ UNCHANGED registry

\* line 58: mtries, mdelay = tries, delay
RetryEntry(t) ==
    /\ pc[t] = "retry_entry"
    /\ mtries' = [mtries EXCEPT ![t] = args[t].tries]
    /\ mdelay' = [mdelay EXCEPT ![t] = args[t].delay]
    /\ Goto(t, "retry_loop")
    /\ UNCHANGED <<registry, frame, calls, call_info>>

\* lines 59-69: one call of f, inside the loop or after it
RetryAttempt(t) ==
    /\ pc[t] = "retry_loop"
    /\ LET a == args[t]
           trapped == LoopCond(mtries[t])
       IN \E exc \in WrappedOutcomes :
            LET ev == [op |-> "f", exc |-> exc, trapped |-> trapped,
                       mtries |-> mtries[t]]
            IN IF exc = ""
               THEN /\ Log(t, <<ev>>)
                    /\ Return(t, "value")
                    /\ UNCHANGED retry_locals
               ELSE IF trapped /\ Catches(exc, a.ExceptionToCheck)
               THEN /\ Log(t, <<ev, [op |-> "LOG.error"],
                                [op |-> "sleep", delay |-> mdelay[t]]>>)
                    /\ mtries' = [mtries EXCEPT ![t] = @ - 1]
                    /\ mdelay' = [mdelay EXCEPT ![t] =
                                      NextDelay(@, a.backoff)]
                    /\ Goto(t, "retry_loop")
               ELSE /\ Log(t, <<ev>>)
                    /\ Raise(t, exc)
                    /\ UNCHANGED retry_locals
    /\ UNCHANGED <<registry, frame, call_info>>

\* --------------------------------------------- get_hosting_device_resources
\* lines 121-124: the rows of the query, in the registry's enumeration order
Query(s, id, complementary_id) == SelectSeq2(s, 1, id, complementary_id)

RECURSIVE LastOnNetwork(_, _)
\* mutant of FirstOnNetwork: the loop does not break at the first hit
LastOnNetwork(rows, mgmt_nw_id) ==
    IF rows = <<>> THEN NoneDict
    ELSE LET rest == LastOnNetwork(Tail(rows), mgmt_nw_id)
         IN IF rest # NoneDict THEN rest
            ELSE IF Head(rows).network_id = mgmt_nw_id THEN Head(rows)
            ELSE NoneDict

RECURSIVE FirstOnNetwork(_, _)
\* lines 116, 125-133: the first row on the management network, else None
FirstOnNetwork(rows, mgmt_nw_id) ==
    IF rows = <<>> THEN NoneDict
    ELSE IF Head(rows).network_id # mgmt_nw_id
    THEN FirstOnNetwork(Tail(rows), mgmt_nw_id)
    ELSE Head(rows)

CallGet(t) ==
    \E context \in {UserContext}, id \in HostingDevices,
       complementary_id \in ComplementaryIds, mgmt_nw_id \in Networks :
        /\ Enter(t, "get_hosting_device_resources",
                 [context |-> context, id |-> id,
                  complementary_id |-> complementary_id,
                  tenant_id |-> "t1", mgmt_nw_id |-> mgmt_nw_id])
        /\ calls' = [calls EXCEPT ![t] = <<[op |-> "query"]>>]
        /\ Return(t, [mgmt_port |->
                        FirstOnNetwork(Query(ports, id, complementary_id),
                                       mgmt_nw_id)])
        /\ dh_mgmt_port' = [dh_mgmt_port EXCEPT ![t] = NoneDict]
        /\ caller' = [caller EXCEPT ![t] = "none"]
        /\ UNCHANGED registry

\* ------------------------------------------ setup_logical_port_connectivity
\* mutant of UpdateValues: the tenant is left as it is
UpdateValues_no_tenant(l3admin_tenant_id) ==
    [device_owner |-> "", device_id |-> "", tenant_id |-> "t1"]

\* lines 172-174
UpdateValues(l3admin_tenant_id) ==
    [device_owner |-> "", device_id |-> "", tenant_id |-> l3admin_tenant_id]

\* mutant of UpdateContext: the caller's context is passed on as it is
UpdateContext_plain(context) == context

\* line 170: the context update_port is called with
UpdateContext(context) == Elevated(context)

\* mutant of SetupCatches: only registry errors are trapped
SetupCatches_Neutron(exc) == IsInstance(exc, "NeutronException")

\* mutant of UpdateTrapped: an error of update_port is swallowed and the
\* attach goes ahead
UpdateTrapped_ignored(exc) == IsInstance(exc, "Exception")

\* lines 169-175: update_port is called before the try block is entered
UpdateTrapped(exc) == FALSE

\* line 180: except Exception
SetupCatches(exc) == IsInstance(exc, "Exception")

RECURSIVE UpdateIn(_, _, _)
UpdateIn(s, port_id, v) ==
    IF s = <<>> THEN <<>>
    ELSE (IF Head(s).id = port_id
          THEN <<[Head(s) EXCEPT !.device_owner = v.device_owner,
                                 !.device_id = v.device_id,
                                 !.tenant_id = v.tenant_id]>>
          ELSE <<Head(s)>>)
         \o UpdateIn(Tail(s), port_id, v)

\* Outcomes of update_port, as for delete_port.
UpdatePortOutcomes(port_id, v) ==
    {[exc |-> "NeutronException", ports |-> ports]}
    \cup
    (IF port_id \in PortIdsOf(ports)
     THEN {[exc |-> "", ports |-> UpdateIn(ports, port_id, v)]}
     ELSE {[exc |-> "PortNotFound", ports |-> ports]})

\* Outcomes of interface_attach: the port is plugged into the hosting device,
\* or the compute side fails and nothing changes.  A port plugged into a
\* device cannot be plugged again.
AttachOutcomes(hosting_device_id, port_id) ==
    {[exc |-> "Exception", attached |-> attached]}
    \cup
    (IF \A hd \in HostingDevices : <<hd, port_id>> \notin attached
     THEN {[exc |-> "", attached |->
                attached \cup {<<hosting_device_id, port_id>>}]}
     ELSE {})

\* Outcomes of interface_detach.
DetachOutcomes(hosting_device_id, port_id) ==
    {[exc |-> "Exception", attached |-> attached]}
    \cup
    (IF <<hosting_device_id, port_id>> \in attached
     THEN {[exc |-> "", attached |->
                attached \ {<<hosting_device_id, port_id>>}]}
     ELSE {})

CallSetup(t) ==
    \E context \in Contexts, port_db \in {[id |-> p] : p \in PortIds},
       hosting_device_id \in HostingDevices :
        /\ Enter(t, "setup_logical_port_connectivity",
                 [context |-> context, port_db |-> port_db,
                  hosting_device_id |-> hosting_device_id])
        /\ calls' = [calls EXCEPT ![t] = <<[op |-> "l3_tenant_id"]>>]
        /\ Goto(t, "update_port")
        /\ dh_mgmt_port' = [dh_mgmt_port EXCEPT ![t] = NoneDict]
        /\ caller' = [caller EXCEPT ![t] = "none"]
        /\ UNCHANGED registry

\* lines 169-174: update_port, outside any try
UpdatePort(t) ==
    /\ pc[t] = "update_port"
    /\ LET a == args[t]
           v == UpdateValues(L3AdminTenant)
       IN \E out \in UpdatePortOutcomes(a.port_db.id, v) :
            /\ ports' = out.ports
            /\ Log(t, <<[op |-> "update_port",
                         context |-> UpdateContext(a.context),
                         port_id |-> a.port_db.id, values |-> v,
                         exc |-> out.exc]>>)
            /\ IF out.exc = "" \/ UpdateTrapped(out.exc)
               THEN Goto(t, "interface_attach")
               ELSE Raise(t, out.exc)
    /\ UNCHANGED <<attached, next_id, retry_locals, frame, call_info>>

\* lines 175-185
InterfaceAttach(t) ==
    /\ pc[t] = "interface_attach"
    /\ LET a == args[t]
       IN \E out \in AttachOutcomes(a.hosting_device_id, a.port_db.id) :
            LET ev == [op |-> "interface_attach",
                       hosting_device_id |-> a.hosting_device_id,
                       port_id |-> a.port_db.id, exc |-> out.exc]
            IN /\ attached' = out.attached
               /\ IF out.exc = ""
                  THEN /\ Log(t, <<ev>>)
                       /\ Return(t, None)
                  ELSE IF SetupCatches(out.exc)
                  THEN /\ Log(t, <<ev, [op |-> "LOG.error"]>>)
                       /\ Return(t, None)
                  ELSE /\ Log(t, <<ev>>)
                       /\ Raise(t, out.exc)
    /\ UNCHANGED <<ports, next_id, retry_locals, frame, call_info>>

\* --------------------------------------- teardown_logical_port_connectivity
\* mutant of TeardownGuard: a present id key is taken to hold an id
TeardownGuard_key_only(port_db) ==
    port_db = NoneDict \/ "id" \notin DOMAIN port_db

\* line 194: port_db is None or port_db.get('id') is None
TeardownGuard(port_db) ==
    port_db = NoneDict \/ DictGet(port_db, "id") = None

\* mutant of TeardownCatches: only registry errors are trapped
TeardownCatches_Neutron(exc) == IsInstance(exc, "NeutronException")

\* line 203: except Exception
TeardownCatches(exc) == IsInstance(exc, "Exception")

CallTeardown(t) ==
    \E context \in {UserContext}, port_db \in PortArgs,
       hosting_device_id \in HostingDevices :
        /\ Enter(t, "teardown_logical_port_connectivity",
                 [context |-> context, port_db |-> port_db,
                  hosting_device_id |-> hosting_device_id])
        /\ IF TeardownGuard(port_db)
           THEN /\ calls' = [calls EXCEPT ![t] = <<[op |-> "LOG.error"]>>]
                /\ Return(t, None)
           ELSE /\ calls' = [calls EXCEPT ![t] = <<>>]
                /\ Goto(t, "interface_detach")
        /\ dh_mgmt_port' = [dh_mgmt_port EXCEPT ![t] = NoneDict]
        /\ caller' = [caller EXCEPT ![t] = "none"]
        /\ UNCHANGED registry

\* lines 198-208
InterfaceDetach(t) ==
    /\ pc[t] = "interface_detach"
    /\ LET a == args[t]
       IN \E out \in DetachOutcomes(a.hosting_device_id, a.port_db.id) :
            LET ev == [op |-> "interface_detach",
                       hosting_device_id |-> a.hosting_device_id,
                       port_id |-> a.port_db.id, exc |-> out.exc]
            IN /\ attached' = out.attached
               /\ IF out.exc = ""
                  THEN /\ Log(t, <<ev>>)
                       /\ Return(t, None)
                  ELSE IF TeardownCatches(out.exc)
                  THEN /\ Log(t, <<ev, [op |-> "LOG.error"]>>)
                       /\ Return(t, None)
                  ELSE /\ Log(t, <<ev>>)
                       /\ Raise(t, out.exc)
    /\ UNCHANGED <<ports, next_id, retry_locals, frame, call_info>>

\* ---------------------------------------------------- allocate_hosting_port
\* mutant of Allocation: the port id is looked up under another key
Allocation_no_id(port_db) ==
    [allocated_port_id |-> DictGet(port_db, "port_id"),
     allocated_vlan |-> None]

\* lines 218-219
Allocation(port_db) ==
    [allocated_port_id |-> port_db.id, allocated_vlan |-> None]

CallAllocate(t) ==
    \E context \in {UserContext}, router_id \in {"r1", "r2"},
       port_db \in {[id |-> p] : p \in PortIds},
       network_type \in {"vlan", "vxlan"},
       hosting_device_id \in HostingDevices :
        /\ Enter(t, "allocate_hosting_port",
                 [context |-> context, router_id |-> router_id,
                  port_db |-> port_db, network_type |-> network_type,
                  hosting_device_id |-> hosting_device_id])
        /\ calls' = [calls EXCEPT ![t] = <<>>]
        /\ dh_mgmt_port' = [dh_mgmt_port EXCEPT ![t] = NoneDict]
        /\ caller' = [caller EXCEPT ![t] = "none"]
        /\ Return(t, Allocation(port_db))
        /\ UNCHANGED registry

\* ---------------------------------------------------------- specifications
StepProvision(t) ==
    \/ CallCreate(t)
    \/ CreatePort(t)
    \/ CallDelete(t)
    \/ DeleteEntry(t)
    \/ DeleteAttempt(t)
    \/ DeleteExit(t)
    \/ CallGet(t)

StepConnect(t) ==
    \/ CallSetup(t)
    \/ UpdatePort(t)
    \/ InterfaceAttach(t)
    \/ CallTeardown(t)
    \/ InterfaceDetach(t)
    \/ CallAllocate(t)

\* The driver is called by one thread, each call running to completion.
\* Spec: the provisioning and query calls of the driver.
Next == \E t \in {1} : StepProvision(t)

Spec == Init /\ [][Next]_vars

\* SpecConnect: the connectivity calls of the driver.
NextConnect == \E t \in {1} : StepConnect(t)

SpecConnect == InitConnect /\ [][NextConnect]_vars

\* SpecRetry: the retry decorator around a function that may fail in any way.
InitRetry == ports = <<>> /\ next_id = 0 /\ attached = {} /\ InitThreads

StepRetry(t) ==
    \/ CallRetry(t)
    \/ RetryEntry(t)
    \/ RetryAttempt(t)

NextRetry == \E t \in {1} : StepRetry(t)

SpecRetry == InitRetry /\ [][NextRetry]_vars

\* SpecConc: two threads, each deleting the resources of a hosting device
\* once, their steps interleaved in any order.
InitConc == InitRegistry({"mgmt"}) /\ InitThreads

StartDelete(t) == op[t] = "none" /\ CallDelete(t)

StepConc(t) ==
    \/ StartDelete(t)
    \/ DeleteEntry(t)
    \/ DeleteAttempt(t)
    \/ DeleteExit(t)

NextConc == \E t \in Threads : StepConc(t)

SpecConc == InitConc /\ [][NextConc]_vars

\* ------------------------------------------------------------------ claims
CREATE == "create_hosting_device_resources"
GET == "get_hosting_device_resources"
DELETE == "delete_hosting_device_resources"
SETUP == "setup_logical_port_connectivity"
TEARDOWN == "teardown_logical_port_connectivity"

\* Thread t's last call was method name and has returned or raised.
Done(t, name) == pc[t] = "idle" /\ op[t] = name

\* Positions of the calls of collaborator operation name in t's log.
Idx(t, name) == {i \in 1..Len(calls[t]) : calls[t][i].op = name}

\* Positions of the failed calls of name in t's log.
Failed(t, name) == {i \in Idx(t, name) : calls[t][i].exc # ""}

Returned(t) == result[t].status = "returned"

\* A delete_port attempt failed with a retryable error.
RetryableFailure(e) == e.exc = "NeutronException"

AllAttemptsFail(t) ==
    /\ Done(t, DELETE)
    /\ args[t].mgmt_port # NoneDict
    /\ \A i \in Idx(t, "delete_port") : RetryableFailure(calls[t][i])

\* C1: when delete_port fails with a retryable error on every attempt, a
\* delete_hosting_device_resources call with a port returns normally and
\* delete_port has been invoked exactly 4 times.
C1_ExhaustionSwallowed ==
    \A t \in Threads :
        AllAttemptsFail(t) =>
            /\ Returned(t)
            /\ Cardinality(Idx(t, "delete_port")) = 4

C1_Witness ==
    \E t \in Threads :
        /\ AllAttemptsFail(t)
        /\ Cardinality(Failed(t, "delete_port")) = 4
        /\ Returned(t)

DeletedPortAbsent(t) == args[t].mgmt_port.id \notin PortIdsOf(ports)

\* C2 as stated: every delete_hosting_device_resources call with a port
\* returns normally and leaves that port absent from the registry.
C2_AbsentAfterEveryCall ==
    \A t \in Threads :
        (Done(t, DELETE) /\ args[t].mgmt_port # NoneDict) =>
            Returned(t) /\ DeletedPortAbsent(t)

\* C2 as amended: every delete_hosting_device_resources call returns
\* normally, on an absent port and on a port deleted before; the port is
\* absent afterwards when it was absent before the call or when one
\* delete_port attempt of the call succeeded or reported PortNotFound.
C2_IdempotentDeletion ==
    \A t \in Threads :
        Done(t, DELETE) =>
            /\ Returned(t)
            /\ args[t].mgmt_port # NoneDict =>
                 /\ args[t].mgmt_port.id \notin PortIdsOf(ports0[t])
                        => DeletedPortAbsent(t)
                 /\ (\E i \in Idx(t, "delete_port") :
                        calls[t][i].exc \in {"", "PortNotFound"})
                        => DeletedPortAbsent(t)

\* the second of two deletions of one port, the port being absent already
C2_Witness ==
    \E t \in Threads :
        /\ Done(t, DELETE)
        /\ args[t].mgmt_port # NoneDict
        /\ prev[t].op = DELETE
        /\ prev[t].mgmt_port = args[t].mgmt_port
        /\ prev[t].status = "returned"
        /\ args[t].mgmt_port.id \notin PortIdsOf(ports0[t])
        /\ Idx(t, "delete_port") # {}
        /\ Returned(t)
        /\ DeletedPortAbsent(t)

\* C3: when create_port fails inside create_hosting_device_resources, the
\* failed create_port call comes first, the cleanup call of
\* delete_hosting_device_resources comes after it and is made exactly once,
\* and the bundle returned has mgmt_port = None.
C3_CleanupOnceAfterFailure ==
    \A t \in Threads :
        (op[t] = CREATE /\ Failed(t, "create_port") # {}) =>
            /\ Idx(t, "create_port") = {1}
            /\ \A j \in Idx(t, DELETE) : j > 1
            /\ Cardinality(Idx(t, DELETE)) <= 1
            /\ pc[t] = "dh_exit" => Cardinality(Idx(t, DELETE)) = 1
            /\ pc[t] = "idle" =>
                 /\ Cardinality(Idx(t, DELETE)) = 1
                 /\ Returned(t)
                 /\ result[t].value.mgmt_port = NoneDict

C3_Witness ==
    \E t \in Threads :
        /\ Done(t, CREATE)
        /\ Failed(t, "create_port") = {1}
        /\ Cardinality(Idx(t, DELETE)) = 1
        /\ Returned(t)
        /\ result[t].value.mgmt_port = NoneDict

\* C4 as stated: when create_port fails, the failure propagates to the caller
\* of create_hosting_device_resources.
C4_CreateFailurePropagates ==
    \A t \in Threads :
        (Done(t, CREATE) /\ Failed(t, "create_port") # {}) =>
            result[t].status = "raised"

\* C4 as amended: when create_port fails with a registry error, the error is
\* logged, the cleanup is triggered, and the call returns normally; no
\* exception reaches the caller of create_hosting_device_resources.
C4_CreateFailureSwallowed ==
    \A t \in Threads :
        (Done(t, CREATE) /\ Failed(t, "create_port") # {}) =>
            /\ result[t].status # "raised"
            /\ \E i \in Idx(t, "LOG.error") :
                 \E j \in Idx(t, DELETE) : 1 < i /\ i < j

C4_Witness ==
    \E t \in Threads :
        /\ Done(t, CREATE)
        /\ Failed(t, "create_port") # {}
        /\ calls[t][1].exc = "NeutronException"
        /\ Idx(t, "LOG.error") # {}
        /\ result[t].status = "returned"

\* The arguments name no management network, or an empty tenant.
NothingToCreate(a) ==
    \/ a.mgmt_context = NoneDict
    \/ "mgmt_nw_id" \notin DOMAIN a.mgmt_context
    \/ a.mgmt_context.mgmt_nw_id \in {None, ""}
    \/ a.tenant_id \in {None, ""}

\* C5: create_hosting_device_resources without a management context, without
\* a management network id in it, or with an empty tenant id returns
\* {mgmt_port: None, ports: []}, calls no registry operation and leaves the
\* registry as it was.
C5_NoOpCreate ==
    \A t \in Threads :
        (op[t] = CREATE /\ NothingToCreate(args[t])) =>
            /\ pc[t] = "idle"
            /\ Returned(t)
            /\ result[t].value = [mgmt_port |-> NoneDict, ports |-> <<>>]
            /\ calls[t] = <<>>
            /\ ports = ports0[t]

C5_Witness ==
    \E t \in Threads :
        /\ Done(t, CREATE)
        /\ args[t].mgmt_context # NoneDict
        /\ "mgmt_nw_id" \in DOMAIN args[t].mgmt_context
        /\ Truthy(args[t].mgmt_context.mgmt_nw_id)
        /\ args[t].tenant_id = ""
        /\ ports # <<>>
        /\ result[t].value = [mgmt_port |-> NoneDict, ports |-> <<>>]

\* C6: in a setup_logical_port_connectivity call, update_port is called with
\* an elevated context and device_owner = "", device_id = "", tenant_id = the
\* L3 admin tenant before interface_attach is called, and interface_attach
\* is called with the hosting device id and port id of the call.
C6_ResetBeforeAttach ==
    \A t \in Threads :
        op[t] = SETUP =>
            LET c == calls[t]
                a == args[t]
            IN /\ \A i \in Idx(t, "update_port") :
                    /\ c[i].context.is_admin
                    /\ c[i].port_id = a.port_db.id
                    /\ c[i].values = [device_owner |-> "", device_id |-> "",
                                      tenant_id |-> L3AdminTenant]
               /\ \A j \in Idx(t, "interface_attach") :
                    /\ \E i \in Idx(t, "update_port") : i < j
                    /\ c[j].hosting_device_id = a.hosting_device_id
                    /\ c[j].port_id = a.port_db.id
               /\ pc[t] # "update_port" =>
                    Cardinality(Idx(t, "update_port")) = 1

C6_Witness ==
    \E t \in Threads :
        /\ Done(t, SETUP)
        /\ ~args[t].context.is_admin
        /\ args[t].hosting_device_id = "hd2"
        /\ Idx(t, "update_port") # {}
        /\ Idx(t, "interface_attach") # {}
        /\ Failed(t, "interface_attach") = {}

\* C7 as stated: setup_logical_port_connectivity returns normally in every
\* case.
C7_SetupNeverRaises ==
    \A t \in Threads : Done(t, SETUP) => Returned(t)

\* C7 as amended: an error from interface_attach is logged and not re-raised,
\* so the call returns normally whenever update_port succeeded; an error from
\* update_port propagates to the caller.
C7_OnlyAttachErrorsSwallowed ==
    \A t \in Threads :
        Done(t, SETUP) =>
            /\ Failed(t, "update_port") = {} <=> Returned(t)
            /\ \A j \in Failed(t, "interface_attach") :
                 /\ Returned(t)
                 /\ \E k \in Idx(t, "LOG.error") : k > j
            /\ \A i \in Failed(t, "update_port") :
                 result[t] = [status |-> "raised", exc |-> calls[t][i].exc]

C7_Witness ==
    \E t \in Threads :
        /\ Done(t, SETUP)
        /\ Failed(t, "interface_attach") # {}
        /\ Returned(t)

\* The port record is None, or its id is missing or None.
NoPortId(port_db) ==
    \/ port_db = NoneDict
    \/ "id" \notin DOMAIN port_db
    \/ port_db.id = None

\* C8: teardown_logical_port_connectivity with a None port record, or one
\* whose id is None or missing, returns without calling interface_detach and
\* leaves the registry and the attachments as they were.
C8_TeardownGuard ==
    \A t \in Threads :
        (op[t] = TEARDOWN /\ NoPortId(args[t].port_db)) =>
            /\ pc[t] = "idle"
            /\ Returned(t)
            /\ Idx(t, "interface_detach") = {}
            /\ ports = ports0[t]
            /\ attached = attached0[t]

C8_Witness ==
    \E t \in Threads :
        /\ Done(t, TEARDOWN)
        /\ args[t].port_db = [id |-> None]
        /\ attached # {}
        /\ Returned(t)

\* C9: teardown_logical_port_connectivity never raises; with a port id it
\* calls interface_detach exactly once, with the hosting device id and port
\* id of the call, and an error of interface_detach is logged, not raised.
C9_TeardownNeverRaises ==
    \A t \in Threads :
        op[t] = TEARDOWN =>
            LET c == calls[t]
                a == args[t]
            IN /\ pc[t] = "idle" => Returned(t)
               /\ Cardinality(Idx(t, "interface_detach")) <= 1
               /\ (pc[t] = "idle" /\ ~NoPortId(a.port_db)) =>
                    Cardinality(Idx(t, "interface_detach")) = 1
               /\ \A j \in Idx(t, "interface_detach") :
                    /\ c[j].hosting_device_id = a.hosting_device_id
                    /\ c[j].port_id = a.port_db.id
               /\ \A j \in Failed(t, "interface_detach") :
                    \E k \in Idx(t, "LOG.error") : k > j

C9_Witness ==
    \E t \in Threads :
        /\ Done(t, TEARDOWN)
        /\ Failed(t, "interface_detach") # {}
        /\ Returned(t)

\* Positions in registry s of the ports that match the id or the owner and
\* are on the management network.
Candidates(s, a) ==
    {i \in 1..Len(s) :
        /\ s[i].device_id = a.id \/ s[i].device_owner = a.complementary_id
        /\ s[i].network_id = a.mgmt_nw_id}

\* C10: get_hosting_device_resources returns as mgmt_port the first port in
\* enumeration order with (device_id = id or device_owner = complementary id)
\* and network_id = management network id, and None exactly when there is
\* no such port.
C10_FirstPortOnMgmtNetwork ==
    \A t \in Threads :
        Done(t, GET) =>
            LET m == Candidates(ports, args[t])
                got == result[t].value.mgmt_port
            IN /\ Returned(t)
               /\ got = NoneDict <=> m = {}
               /\ m # {} =>
                    \E i \in m : got = ports[i] /\ \A j \in m : i <= j

\* two candidates, one found by its device id and one by its owner
C10_Witness ==
    \E t \in Threads :
        /\ Done(t, GET)
        /\ Candidates(ports, args[t]) = {1, 2}
        /\ ports[1].device_id # args[t].id
        /\ ports[2].device_owner # args[t].complementary_id
        /\ result[t].value.mgmt_port = ports[1]

\* a port that matches the filter on another network is passed over
C10_WitnessOtherNetwork ==
    \E t \in Threads :
        /\ Done(t, GET)
        /\ Candidates(ports, args[t]) = {2}
        /\ ports[1].device_owner = args[t].complementary_id
        /\ ports[1].network_id # args[t].mgmt_nw_id
        /\ result[t].value.mgmt_port = ports[2]

RETRY == "f_retry"

RECURSIVE Pow(_, _)
Pow(b, n) == IF n = 0 THEN 1 ELSE b * Pow(b, n - 1)

\* The delays slept in t's current call, in order.
RECURSIVE SleepsOf(_)
SleepsOf(c) ==
    IF c = <<>> THEN <<>>
    ELSE (IF Head(c).op = "sleep" THEN <<Head(c).delay>> ELSE <<>>)
         \o SleepsOf(Tail(c))

Sleeps(t) == SleepsOf(calls[t])

\* Every call of the wrapped function so far failed with a retryable error.
EveryCallRetryable(t) ==
    \A i \in Idx(t, "f") :
        /\ calls[t][i].exc # ""
        /\ IsInstance(calls[t][i].exc, args[t].ExceptionToCheck)

\* C11: under retry(ExceptionToCheck, tries, delay, backoff) with tries >= 1,
\* when the wrapped function fails with a retryable error on every call, it
\* is called exactly tries times, the sleeps in between are delay,
\* delay*backoff, delay*backoff^2, ..., tries - 1 of them, and the error of
\* the last call reaches the caller of the wrapper.
C11_TriesAttemptsThenPropagate ==
    \A t \in Threads :
        (op[t] = RETRY /\ EveryCallRetryable(t)) =>
            LET n == Cardinality(Idx(t, "f"))
                sl == Sleeps(t)
            IN /\ n <= args[t].tries
               /\ \A j \in 1..Len(sl) :
                    sl[j] = args[t].delay * Pow(args[t].backoff, j - 1)
               /\ pc[t] = "idle" =>
                    /\ n = args[t].tries
                    /\ Len(sl) = args[t].tries - 1
                    /\ result[t] =
                         [status |-> "raised",
                          exc |-> calls[t][Len(calls[t])].exc]

C11_Witness ==
    \E t \in Threads :
        /\ Done(t, RETRY)
        /\ EveryCallRetryable(t)
        /\ args[t].tries = 4
        /\ Sleeps(t) = <<3, 9, 27>>
        /\ result[t].status = "raised"

\* Positions of the calls of f that failed with an error outside
\* ExceptionToCheck.
NotRetryable(t) ==
    {i \in Failed(t, "f") :
        ~IsInstance(calls[t][i].exc, args[t].ExceptionToCheck)}

\* C12: an error of the wrapped function whose class is not in
\* ExceptionToCheck reaches the caller at its first occurrence: nothing is
\* slept or called after it, and the remaining-attempts counter keeps the
\* value it had when the function was called.
C12_OtherErrorsPropagateAtOnce ==
    \A t \in Threads :
        op[t] = RETRY =>
            \A i \in NotRetryable(t) :
                /\ i = Len(calls[t])
                /\ pc[t] = "idle"
                /\ result[t] = [status |-> "raised", exc |-> calls[t][i].exc]
                /\ mtries[t] = calls[t][i].mtries

C12_Witness ==
    \E t \in Threads :
        /\ Done(t, RETRY)
        /\ args[t].ExceptionToCheck = "PortNotFound"
        /\ Cardinality(Idx(t, "f")) = 2
        /\ calls[t][Len(calls[t])].exc = "NeutronException"
        /\ calls[t][Len(calls[t])].trapped
        /\ mtries[t] = args[t].tries - 1
        /\ result[t] = [status |-> "raised", exc |-> "NeutronException"]

\* Both threads have finished a deletion of the same port.
BothDeleted ==
    /\ \A t \in Threads : Done(t, DELETE) /\ args[t].mgmt_port # NoneDict
    /\ args[1].mgmt_port = args[2].mgmt_port

\* Some delete_port call of t removed the port or found it gone.
SettledBy(t) ==
    \E i \in Idx(t, "delete_port") : calls[t][i].exc \in {"", "PortNotFound"}

\* C13: two concurrent delete_hosting_device_resources calls for one port,
\* their delete_port calls interleaved in any order, both return normally,
\* and the port is absent once both have returned if a delete_port call of
\* either removed it or reported PortNotFound.
C13_ConcurrentDeletion ==
    /\ \A t \in Threads : Done(t, DELETE) => Returned(t)
    /\ (BothDeleted /\ \E t \in Threads : SettledBy(t)) =>
          args[1].mgmt_port.id \notin PortIdsOf(ports)

\* both calls started while the port was recorded; thread 2 lost the race
\* after a failed attempt of its own
C13_Witness ==
    /\ BothDeleted
    /\ \A t \in Threads : args[t].mgmt_port.id \in PortIdsOf(ports0[t])
    /\ \E i \in Idx(1, "delete_port") : calls[1][i].exc = ""
    /\ Failed(2, "delete_port") # {}
    /\ \E i \in Idx(2, "delete_port") : calls[2][i].exc = "PortNotFound"
    /\ calls[2][2].exc = "NeutronException"
    /\ \A t \in Threads : Returned(t)
    /\ args[1].mgmt_port.id \notin PortIdsOf(ports)

ALLOCATE == "allocate_hosting_port"

\* Registry s holds a port as create_hosting_device_resources makes them for
\* complementary id c on network n, not updated since.
HoldsCreated(s, c, n) ==
    \E i \in 1..Len(s) :
        /\ s[i].device_id = ""
        /\ s[i].device_owner = c
        /\ s[i].network_id = n

\* C14: a port returned by create_hosting_device_resources is recorded with
\* an empty device_id, device_owner = the complementary id and the
\* management network of the call; and while the registry holds such a port,
\* get_hosting_device_resources with that complementary id and network
\* returns a port on that network, whatever the hosting device id.
C14_CreatedPortDiscoverable ==
    \A t \in Threads :
        /\ (Done(t, CREATE) /\ Returned(t)
                /\ result[t].value.mgmt_port # NoneDict) =>
              LET p == result[t].value.mgmt_port
              IN /\ p.device_id = ""
                 /\ p.device_owner = args[t].complementary_id
                 /\ p.network_id = args[t].mgmt_context.mgmt_nw_id
                 /\ \E i \in 1..Len(ports) : ports[i] = p
        /\ (Done(t, GET)
                /\ HoldsCreated(ports, args[t].complementary_id,
                                args[t].mgmt_nw_id)) =>
              /\ result[t].value.mgmt_port # NoneDict
              /\ result[t].value.mgmt_port.network_id = args[t].mgmt_nw_id

\* the port of complementary id c2 can only come from a create call; no port
\* carries the hosting device id asked for
C14_Witness ==
    \E t \in Threads :
        /\ Done(t, GET)
        /\ args[t].complementary_id = "c2"
        /\ \A i \in 1..Len(ports) : ports[i].device_id # args[t].id
        /\ result[t].value.mgmt_port # NoneDict
        /\ result[t].value.mgmt_port.device_owner = "c2"
        /\ result[t].value.mgmt_port.device_id = ""
        /\ result[t].value.mgmt_port.network_id = args[t].mgmt_nw_id

\* C15: allocate_hosting_port returns the id of the logical port as
\* allocated_port_id and None as allocated_vlan, whatever the router id,
\* network type and hosting device id, and calls neither the registry nor the
\* compute side.
C15_AllocateReusesPortId ==
    \A t \in Threads :
        op[t] = ALLOCATE =>
            /\ pc[t] = "idle"
            /\ Returned(t)
            /\ result[t].value = [allocated_port_id |-> args[t].port_db.id,
                                  allocated_vlan |-> None]
            /\ calls[t] = <<>>
            /\ ports = ports0[t]
            /\ attached = attached0[t]

C15_Witness ==
    \E t \in Threads :
        /\ Done(t, ALLOCATE)
        /\ args[t].router_id = "r2"
        /\ args[t].network_type = "vxlan"
        /\ args[t].hosting_device_id = "hd2"
        /\ attached # {}
        /\ result[t].value.allocated_port_id = "p2"

\* C16: the record returned by create_hosting_device_resources and by
\* get_hosting_device_resources has a mgmt_port field and a ports field, the
\* latter empty.
C16_BundlesCarryEmptyPorts ==
    \A t \in Threads :
        ((Done(t, CREATE) \/ Done(t, GET)) /\ Returned(t)) =>
            /\ DOMAIN result[t].value = {"mgmt_port", "ports"}
            /\ result[t].value.ports = <<>>

\* The position of the last delete_port call in t's log, 0 if there is none.
LastAttempt(t) ==
    IF Idx(t, "delete_port") = {} THEN 0
    ELSE CHOOSE i \in Idx(t, "delete_port") :
            \A j \in Idx(t, "delete_port") : j <= i

\* C17: a delete_hosting_device_resources call with a port makes k <= 4
\* delete_port calls, the k-th being the first that succeeds or reports
\* PortNotFound (k = 4 if none does); it sleeps the first k - 1 of the delays
\* 1, 2, 4; PortNotFound uses up no attempt; and nothing is called or slept
\* after the k-th call.
C17_BoundedDeletion ==
    \A t \in Threads :
        (op[t] = DELETE /\ args[t].mgmt_port # NoneDict) =>
            LET c == calls[t]
                n == Cardinality(Idx(t, "delete_port"))
                sl == Sleeps(t)
                last == LastAttempt(t)
            IN /\ n <= 4
               /\ Len(sl) <= 3
               /\ sl = SubSeq(<<1, 2, 4>>, 1, Len(sl))
               /\ \A i \in Idx(t, "delete_port") :
                    i # last => c[i].exc = "NeutronException"
               /\ pc[t] = "f_retry" =>
                    /\ n < 4
                    /\ Len(sl) = n
                    /\ mtries[t] = DELETION_ATTEMPTS - n
               /\ pc[t] \in {"dh_exit", "idle"} =>
                    /\ n >= 1
                    /\ c[last].exc \in {"", "PortNotFound"} \/ n = 4
                    /\ Len(sl) = n - 1
                    /\ mtries[t] = DELETION_ATTEMPTS - (n - 1)
                    /\ \A j \in Idx(t, "sleep") : j < last
               /\ pc[t] = "idle" => Returned(t)

\* two failures, then PortNotFound at the third attempt
C17_Witness ==
    \E t \in Threads :
        /\ Done(t, DELETE)
        /\ args[t].mgmt_port # NoneDict
        /\ Cardinality(Idx(t, "delete_port")) = 3
        /\ calls[t][LastAttempt(t)].exc = "PortNotFound"
        /\ Sleeps(t) = <<1, 2>>
        /\ mtries[t] = 2

\* C18: the cleanup after a failed create_port is given None as the port, so
\* create_hosting_device_resources never calls delete_port, and a port the
\* registry recorded before it reported the failure stays recorded.
C18_CleanupDeletesNothing ==
    \A t \in Threads :
        op[t] = CREATE =>
            /\ pc[t] # "f_retry"
            /\ Idx(t, "delete_port") = {}
            /\ \A j \in Idx(t, DELETE) : calls[t][j].mgmt_port = NoneDict
            /\ \A i \in Failed(t, "create_port") :
                 calls[t][i].recorded # None =>
                    calls[t][i].recorded \in PortIdsOf(ports)

C18_Witness ==
    \E t \in Threads :
        /\ Done(t, CREATE)
        /\ Failed(t, "create_port") = {1}
        /\ calls[t][1].recorded # None
        /\ calls[t][1].recorded \in PortIdsOf(ports)
        /\ calls[t][1].recorded \notin PortIdsOf(ports0[t])
        /\ Idx(t, DELETE) # {}
        /\ result[t].value.mgmt_port = NoneDict

\* The registry's record of port port_id.
PortRecord(s, port_id) == CHOOSE p \in {s[i] : i \in 1..Len(s)} : p.id = port_id

\* A finished setup call whose update_port succeeded and whose
\* interface_attach failed.
AttachFailedAfterReset(t) ==
    /\ Done(t, SETUP)
    /\ Idx(t, "update_port") # {}
    /\ Failed(t, "update_port") = {}
    /\ Failed(t, "interface_attach") # {}

OwnershipReset(t) ==
    /\ args[t].port_db.id \in PortIdsOf(ports)
    /\ LET p == PortRecord(ports, args[t].port_db.id)
       IN /\ p.device_owner = ""
          /\ p.device_id = ""
          /\ p.tenant_id = L3AdminTenant

\* C19 as stated: after a setup call in which update_port succeeded and
\* interface_attach failed, the port is not attached to the hosting device
\* and its record has device_owner = "", device_id = "" and the admin tenant.
C19_NotAttachedAndReset ==
    \A t \in Threads :
        AttachFailedAfterReset(t) =>
            /\ <<args[t].hosting_device_id, args[t].port_db.id>>
                   \notin attached
            /\ OwnershipReset(t)

\* C19 as amended: after such a call the attachments are as they were before
\* the call, so the port is attached to the hosting device only if it was
\* before, and its record has device_owner = "", device_id = "" and the
\* admin tenant: the reset is not rolled back.
C19_ResetNotRolledBack ==
    \A t \in Threads :
        AttachFailedAfterReset(t) =>
            /\ attached = attached0[t]
            /\ OwnershipReset(t)

C19_Witness ==
    \E t \in Threads :
        /\ AttachFailedAfterReset(t)
        /\ args[t].port_db.id \in PortIdsOf(ports0[t])
        /\ PortRecord(ports0[t], args[t].port_db.id).device_owner = "c1"
        /\ PortRecord(ports0[t], args[t].port_db.id).tenant_id = "t1"
        /\ <<args[t].hosting_device_id, args[t].port_db.id>> \notin attached
        /\ OwnershipReset(t)

\* C20: in a setup call interface_attach is called only after update_port
\* returned without error; when update_port fails, interface_attach is not
\* called and the attachments stay as they were.
C20_AttachOnlyAfterUpdate ==
    \A t \in Threads :
        op[t] = SETUP =>
            /\ \A j \in Idx(t, "interface_attach") :
                 \E i \in Idx(t, "update_port") :
                    i < j /\ calls[t][i].exc = ""
            /\ Failed(t, "update_port") # {} =>
                 /\ pc[t] = "idle"
                 /\ Idx(t, "interface_attach") = {}
                 /\ attached = attached0[t]

C20_Witness ==
    \E t \in Threads :
        /\ Done(t, SETUP)
        /\ Failed(t, "update_port") # {}
        /\ args[t].port_db.id \in PortIdsOf(ports)
        /\ Idx(t, "interface_attach") = {}
        /\ attached # {}
        /\ result[t].status = "raised"

====
